---- MODULE Spec2Model ----
(***************************************************************************)
(* A model of download.py: the embedded name -> identifier table, the      *)
(* parsing of the request file, the per-request resolution and fetch loop  *)
(* of main, and the rewrite of the request file.                           *)
(*                                                                         *)
(* Text is modelled as a sequence of one-character strings, so that        *)
(* stripping, splitting on commas, integer parsing, joining and formatting *)
(* are computed character by character as the Python code computes them.   *)
(* The input alphabet has no double quote, so csv quoting never applies.   *)
(***************************************************************************)
EXTENDS Integers, Sequences, FiniteSets, TLC

(* ---------------------------- bounds ----------------------------------- *)

\* Longest request file built from the short line set ShortLines.
MaxLines == 2

(* ------------------------ text primitives ------------------------------ *)

\* str.strip()/lstrip()/rstrip() and the regex class \s: blank characters.
IsSpace(c) == c \in {" ", "\t"}

RECURSIVE LStrip(_)
LStrip(s) ==
    IF s = <<>> THEN <<>>
    ELSE IF IsSpace(Head(s)) THEN LStrip(Tail(s)) ELSE s

RECURSIVE RStrip(_)
RStrip(s) ==
    IF s = <<>> THEN <<>>
    ELSE IF IsSpace(s[Len(s)]) THEN RStrip(SubSeq(s, 1, Len(s) - 1)) ELSE s

Strip(s) == RStrip(LStrip(s))

StartsWith(s, p) == Len(s) >= Len(p) /\ SubSeq(s, 1, Len(p)) = p

EndsWith(s, p) ==
    Len(s) >= Len(p) /\ SubSeq(s, Len(s) - Len(p) + 1, Len(s)) = p

Digits == <<"0", "1", "2", "3", "4", "5", "6", "7", "8", "9">>

IsDigit(c) == \E k \in 1..10 : Digits[k] = c

DigitVal(c) == (CHOOSE k \in 1..10 : Digits[k] = c) - 1

\* str(n) for n >= 0, as used by the f-strings.
RECURSIVE NatStr(_)
NatStr(n) ==
    IF n < 10 THEN <<Digits[n + 1]>>
    ELSE NatStr(n \div 10) \o <<Digits[(n % 10) + 1]>>

IntStr(n) == IF n < 0 THEN <<"-">> \o NatStr(0 - n) ELSE NatStr(n)

\* int(s) succeeds on an optional sign followed by one or more digits
\* (s is already stripped by the caller).
AllDigits(s) == s # <<>> /\ \A k \in 1..Len(s) : IsDigit(s[k])

IsInt(s) ==
    IF s # <<>> /\ Head(s) \in {"+", "-"} THEN AllDigits(Tail(s))
    ELSE AllDigits(s)

RECURSIVE NatVal(_)
NatVal(s) ==
    IF s = <<>> THEN 0
    ELSE 10 * NatVal(SubSeq(s, 1, Len(s) - 1)) + DigitVal(s[Len(s)])

ToInt(s) ==
    IF Head(s) = "-" THEN 0 - NatVal(Tail(s))
    ELSE IF Head(s) = "+" THEN NatVal(Tail(s))
    ELSE NatVal(s)

\* One row of csv.reader for a line without quotes: the empty line gives the
\* empty row, any other line is split on every comma.
RECURSIVE SplitComma(_)
SplitComma(s) ==
    IF \A k \in 1..Len(s) : s[k] # ","
    THEN <<s>>
    ELSE LET p == CHOOSE k \in 1..Len(s) :
                      s[k] = "," /\ \A j \in 1..(k - 1) : s[j] # ","
         IN  <<SubSeq(s, 1, p - 1)>> \o SplitComma(SubSeq(s, p + 1, Len(s)))

CsvRow(line) == IF line = <<>> THEN <<>> ELSE SplitComma(line)

\* ", ".join(cols)
RECURSIVE JoinCommaSpace(_)
JoinCommaSpace(cols) ==
    IF cols = <<>> THEN <<>>
    ELSE IF Len(cols) = 1 THEN cols[1]
    ELSE cols[1] \o <<",", " ">> \o JoinCommaSpace(Tail(cols))

UpperCase == <<"A", "B", "C", "D", "E", "F", "G", "H", "I", "J", "K", "L", "M",
               "N", "O", "P", "Q", "R", "S", "T", "U", "V", "W", "X", "Y", "Z">>

LowerCase == <<"a", "b", "c", "d", "e", "f", "g", "h", "i", "j", "k", "l", "m",
               "n", "o", "p", "q", "r", "s", "t", "u", "v", "w", "x", "y", "z">>

\* str.casefold() on the ASCII alphabet.
CaseFold(c) ==
    IF \E k \in 1..26 : UpperCase[k] = c
    THEN LowerCase[CHOOSE k \in 1..26 : UpperCase[k] = c]
    ELSE c

\* _NAME_SPACE_RX.sub(" ", s): every maximal run of blanks becomes one space.
RECURSIVE CollapseSpaces(_)
CollapseSpaces(s) ==
    IF s = <<>> THEN <<>>
    ELSE IF IsSpace(Head(s))
         THEN <<" ">> \o CollapseSpaces(LStrip(s))
         ELSE <<Head(s)>> \o CollapseSpaces(Tail(s))

(* --------------------------- constants --------------------------------- *)

BASE_URL == <<"h", "t", "t", "p", "s", ":", "/", "/", "r", "e", "n", "d", "e",
              "r", ".", "a", "l", "b", "i", "o", "n", "o", "n", "l", "i", "n",
              "e", ".", "c", "o", "m", "/", "v", "1", "/", "i", "t", "e", "m",
              "/">>

PngExt == <<".", "p", "n", "g">>

QualityParam == <<"?", "q", "u", "a", "l", "i", "t", "y", "=">>

QUALITY_WORD ==
    [q \in 1..5 |->
        CASE q = 1 -> <<"C", "o", "m", "m", "o", "n">>
          [] q = 2 -> <<"G", "o", "o", "d">>
          [] q = 3 -> <<"O", "u", "t", "s", "t", "a", "n", "d", "i", "n", "g">>
          [] q = 4 -> <<"E", "x", "c", "e", "l", "l", "e", "n", "t">>
          [] q = 5 -> <<"M", "a", "s", "t", "e", "r", "p", "i", "e", "c", "e">>]

\* The "tier omitted" sentinel of parse_requests_file.
NoTier == 0 - 1

(* ------------------------- pure functions ------------------------------ *)

norm_name(name) ==
    LET t == CollapseSpaces(Strip(name))
    IN  [k \in 1..Len(t) |-> CaseFold(t[k])]

safe_file_stem(text) ==
    [k \in 1..Len(text) |-> IF text[k] \in {"/", "\\"} THEN "-" ELSE text[k]]

\* _TIER_PREFIX_RX = ^T([1-8])_
has_tier_prefix(ident) ==
    /\ Len(ident) >= 3
    /\ ident[1] = "T"
    /\ IsDigit(ident[2]) /\ DigitVal(ident[2]) \in 1..8
    /\ ident[3] = "_"

extract_tier_from_ident(ident) ==
    IF has_tier_prefix(ident) THEN DigitVal(ident[2]) ELSE NoTier

\* build_identifier with the supplied tier preferred over the embedded one.
build_identifier_SuppliedTierWins(base_ident, tier, enchant) ==
    LET prefixed == has_tier_prefix(base_ident)
        tier_for_name == IF prefixed /\ tier = NoTier
                         THEN extract_tier_from_ident(base_ident)
                         ELSE tier
        core == IF prefixed THEN base_ident
                ELSE <<"T">> \o IntStr(tier) \o <<"_">> \o base_ident
        ident == IF enchant = 0 THEN core
                 ELSE core \o <<"@">> \o IntStr(enchant)
    IN  IF ~prefixed /\ tier = NoTier
        THEN [raised |-> TRUE, ident |-> <<>>, tier |-> NoTier]
        ELSE [raised |-> FALSE, ident |-> ident, tier |-> tier_for_name]

\* build_identifier with the enchantment suffix appended for enchantment 0
\* as well.
build_identifier_AlwaysSuffix(base_ident, tier, enchant) ==
    LET prefixed == has_tier_prefix(base_ident)
        tier_for_name == IF prefixed THEN extract_tier_from_ident(base_ident)
                         ELSE tier
        core == IF prefixed THEN base_ident
                ELSE <<"T">> \o IntStr(tier) \o <<"_">> \o base_ident
        ident == core \o <<"@">> \o IntStr(enchant)
    IN  IF ~prefixed /\ tier = NoTier
        THEN [raised |-> TRUE, ident |-> <<>>, tier |-> NoTier]
        ELSE [raised |-> FALSE, ident |-> ident, tier |-> tier_for_name]

\* build_identifier: (identifier_for_url, tier_for_filename), or the
\* ValueError raised when the identifier has no prefix and the tier is omitted.
build_identifier(base_ident, tier, enchant) ==
    LET prefixed == has_tier_prefix(base_ident)
        tier_for_name == IF prefixed THEN extract_tier_from_ident(base_ident)
                         ELSE tier
        core == IF prefixed THEN base_ident
                ELSE <<"T">> \o IntStr(tier) \o <<"_">> \o base_ident
        ident == IF enchant = 0 THEN core
                 ELSE core \o <<"@">> \o IntStr(enchant)
    IN  IF ~prefixed /\ tier = NoTier
        THEN [raised |-> TRUE, ident |-> <<>>, tier |-> NoTier]
        ELSE [raised |-> FALSE, ident |-> ident, tier |-> tier_for_name]

build_url(identifier, quality) ==
    IF quality = 1
    THEN BASE_URL \o identifier \o PngExt
    ELSE BASE_URL \o identifier \o PngExt \o QualityParam \o IntStr(quality)

\* build_filename with the quality word appended for quality 1 as well.
build_filename_AlwaysWord(name, tier, enchant, quality) ==
    LET stem0 == safe_file_stem(name) \o <<" ">> \o IntStr(tier)
        stem1 == IF enchant > 0 THEN stem0 \o <<".">> \o IntStr(enchant)
                 ELSE stem0
        word  == IF quality \in DOMAIN QUALITY_WORD THEN QUALITY_WORD[quality]
                 ELSE IntStr(quality)
        stem2 == IF quality >= 1 THEN stem1 \o <<" ">> \o word ELSE stem1
    IN  stem2 \o PngExt

build_filename(name, tier, enchant, quality) ==
    LET stem0 == safe_file_stem(name) \o <<" ">> \o IntStr(tier)
        stem1 == IF enchant > 0 THEN stem0 \o <<".">> \o IntStr(enchant)
                 ELSE stem0
        word  == IF quality \in DOMAIN QUALITY_WORD THEN QUALITY_WORD[quality]
                 ELSE IntStr(quality)
        stem2 == IF quality > 1 THEN stem1 \o <<" ">> \o word ELSE stem1
    IN  stem2 \o PngExt

(* ----------------------- parse_embedded_items -------------------------- *)

EmptyMapping == [k \in {} |-> <<>>]

\* The lines kept in `cleaned`: stripped, non-blank, not starting with '#'.
RECURSIVE CleanedLines(_)
CleanedLines(lines) ==
    IF lines = <<>> THEN <<>>
    ELSE LET line == Strip(Head(lines))
         IN  IF line = <<>> \/ Head(line) = "#"
             THEN CleanedLines(Tail(lines))
             ELSE <<line>> \o CleanedLines(Tail(lines))

\* The loop over the csv rows: a later row overwrites an earlier one with the
\* same normalized name.
RECURSIVE AddRows(_, _)
AddRows(mapping, lines) ==
    IF lines = <<>> THEN mapping
    ELSE LET row   == CsvRow(Head(lines))
             name  == Strip(row[1])
             ident == Strip(row[2])
             key   == norm_name(name)
         IN  IF Len(row) < 2 \/ name = <<>> \/ ident = <<>>
             THEN AddRows(mapping, Tail(lines))
             ELSE AddRows([k \in DOMAIN mapping \cup {key} |->
                              IF k = key THEN ident ELSE mapping[k]],
                          Tail(lines))

parse_embedded_items(csv_lines) == AddRows(EmptyMapping, CleanedLines(csv_lines))

(* ----------------------- parse_requests_file --------------------------- *)

\* The comment test of the reader loop: a one-field row whose field starts
\* with '#' after leading blanks.
IsCommentRow(raw_line) ==
    Len(raw_line) = 1 /\ StartsWith(LStrip(raw_line[1]), <<"#">>)

StripCols(raw_line) == [k \in 1..Len(raw_line) |-> Strip(raw_line[k])]

\* tier: missing, empty or not an integer gives the sentinel.
ParseTier(cols) ==
    IF Len(cols) >= 2 /\ cols[2] # <<>> /\ IsInt(cols[2]) THEN ToInt(cols[2])
    ELSE NoTier

\* enchantment: missing, empty or not an integer gives 0.
ParseEnchant(cols) ==
    IF Len(cols) >= 3 /\ cols[3] # <<>> /\ IsInt(cols[3]) THEN ToInt(cols[3])
    ELSE 0

\* quality: missing, empty or not an integer gives 1.
ParseQuality(cols) ==
    IF Len(cols) >= 4 /\ cols[4] # <<>> /\ IsInt(cols[4]) THEN ToInt(cols[4])
    ELSE 1

\* The range checks with a tier of 9 let through.
RangeOk_TierUpTo9(tier, enchant, quality) ==
    /\ ~(tier # NoTier /\ ~(1 <= tier /\ tier <= 9))
    /\ 0 <= enchant /\ enchant <= 4
    /\ 1 <= quality /\ quality <= 5

\* The three range checks that end in `continue`.
RangeOk(tier, enchant, quality) ==
    /\ ~(tier # NoTier /\ ~(1 <= tier /\ tier <= 8))
    /\ 0 <= enchant /\ enchant <= 4
    /\ 1 <= quality /\ quality <= 5

\* Whether one csv row produces a request.
RowAccepted(raw_line) ==
    /\ raw_line # <<>>
    /\ ~IsCommentRow(raw_line)
    /\ StripCols(raw_line)[1] # <<>>
    /\ LET cols == StripCols(raw_line)
       IN  RangeOk(ParseTier(cols), ParseEnchant(cols), ParseQuality(cols))

\* The tuple appended to reqs; lineno is the position of the line in the
\* file, kept beside the tuple to relate a request to its input line.
RowRequest(raw_line, n) ==
    LET cols == StripCols(raw_line)
    IN  [name          |-> cols[1],
         tier          |-> ParseTier(cols),
         enchant       |-> ParseEnchant(cols),
         quality       |-> ParseQuality(cols),
         original_line |-> JoinCommaSpace(cols),
         lineno        |-> n]

RECURSIVE ReadRows(_, _)
ReadRows(lines, n) ==
    IF n > Len(lines) THEN <<>>
    ELSE LET raw_line == CsvRow(lines[n])
         IN  IF RowAccepted(raw_line)
             THEN <<RowRequest(raw_line, n)>> \o ReadRows(lines, n + 1)
             ELSE ReadRows(lines, n + 1)

\* parse_requests_file: no request when the path does not exist.
parse_requests_file(exists, lines) ==
    IF ~exists THEN <<>> ELSE ReadRows(lines, 1)

(* ------------------------------ inputs --------------------------------- *)

\* ITEMS_CSV: an excerpt of the embedded data (its leading blank line, a
\* section comment, one identifier with an embedded tier and two without).
ITEMS_CSV ==
    << <<>>,
       <<"#", " ", "M", "O", "U", "N", "T", "S">>,
       <<"M", "u", "l", "e", ",", " ", "T", "2", "_", "M", "O", "U", "N", "T",
         "_", "M", "U", "L", "E">>,
       <<"B", "o", "w", ",", " ", "2", "H", "_", "B", "O", "W">>,
       <<"C", "l", "e", "r", "i", "c", " ", "R", "o", "b", "e", ",", " ", "A",
         "R", "M", "O", "R", "_", "C", "L", "O", "T", "H", "_", "S", "E", "T",
         "2">> >>

\* The embedded text the run may be built with: the data, no data at all,
\* or only blank and comment lines.
Datasets ==
    { ITEMS_CSV,
      <<>>,
      << <<>>, <<"#", " ", "W", "E", "A", "P", "O", "N", "S">> >> }

\* Lines used to build request files of up to MaxLines lines.
ShortLines ==
    { <<>>,
      <<"#", " ", "n", "o", "t", "e">>,
      <<"#", " ", "B", "o", "w", ",", " ", "6">>,
      <<"M", "u", "l", "e">>,
      <<"M", "u", "l", "e", ",", " ", "5">>,
      <<"B", "o", "w">>,
      <<"B", "o", "w", ",", "6">>,
      <<"N", "o", "p", "e", ",", "3">>,
      <<"N", "o", "p", "e", ",">>,
      <<"B", "o", "w", ",", " ", "9">>,
      <<"B", "o", "w", ",", " ", "x">>,
      <<"B", "o", "w", ",", " ", "-", "1">>,
      <<"C", "l", "e", "r", "i", "c", " ", "R", "o", "b", "e", ",", " ", "6",
        ",", " ", "1", ",", " ", "4">> }

\* Field texts combined into one-line request files.
NameTexts ==
    { <<>>,
      <<"M", "u", "l", "e">>,
      <<" ", "m", "u", "l", "e", " ">>,
      <<"B", "o", "w">>,
      <<"C", "l", "e", "r", "i", "c", " ", " ", "R", "o", "b", "e">>,
      <<"N", "o", "p", "e">>,
      <<"#", " ", "c">> }

TierTexts ==
    { <<>>, <<"1">>, <<"2">>, <<" ", "5">>, <<"8">>, <<"0">>, <<"9">>,
      <<"-", "1">>, <<"x">> }

EnchantTexts == { <<"0">>, <<" ", "1">>, <<"4">>, <<"5">>, <<"x">> }

QualityTexts ==
    { <<"1">>, <<"2">>, <<"3">>, <<"4", " ">>, <<"5">>, <<"6">>, <<"x">> }

FieldLists ==
    {<<>>}
    \cup {<<t>> : t \in TierTexts}
    \cup {<<t, e>> : t \in TierTexts, e \in EnchantTexts}
    \cup {<<t, e, q>> : t \in TierTexts, e \in EnchantTexts, q \in QualityTexts}

RECURSIVE WithFields(_, _)
WithFields(text, fields) ==
    IF fields = <<>> THEN text
    ELSE WithFields(text \o <<",">> \o Head(fields), Tail(fields))

FieldLines == {WithFields(n, f) : n \in NameTexts, f \in FieldLists}

RECURSIVE FilesUpTo(_)
FilesUpTo(n) ==
    IF n = 0 THEN {<<>>}
    ELSE LET shorter == FilesUpTo(n - 1)
         IN  shorter \cup {Append(f, l) : f \in shorter, l \in ShortLines}

InputFiles == FilesUpTo(MaxLines) \cup {<<l>> : l \in FieldLines}

(* ------------------------------ state ---------------------------------- *)

VARIABLES
    pc,            \* position of main
    dataset,       \* the embedded ITEMS_CSV text of this build
    name_to_ident, \* the mapping built at startup
    fileExists,    \* whether input_path exists
    file,          \* the lines of the request file
    file0,         \* the lines of the request file when the run started
    entries,       \* the parsed requests
    i,             \* index of the request the loop is at
    cur,           \* base_ident and eff_tier of the request being fetched
    failed_lines,  \* the failure list
    outcome,       \* per processed request: how its iteration ended
    calls,         \* the calls of download_one, in order
    rewritten,     \* whether the rewrite opened and wrote the file
    exitCode       \* exit status of the process once pc = "done"

vars == <<pc, dataset, name_to_ident, fileExists, file, file0, entries, i, cur,
          failed_lines, outcome, calls, rewritten, exitCode>>

NoCur == [base_ident |-> <<>>, eff_tier |-> NoTier]

Init ==
    /\ pc = "load"
    /\ dataset \in Datasets
    /\ name_to_ident = EmptyMapping
    /\ fileExists \in BOOLEAN
    /\ file \in (IF fileExists THEN InputFiles ELSE {<<>>})
    /\ file0 = file
    /\ entries = <<>>
    /\ i = 1
    /\ cur = NoCur
    /\ failed_lines = <<>>
    /\ outcome = <<>>
    /\ calls = <<>>
    /\ rewritten = FALSE
    /\ exitCode = 0

(* ------------------------------ main ----------------------------------- *)

\* LoadItems without the exit on an empty mapping.
LoadItems_NoExit ==
    /\ pc = "load"
    /\ name_to_ident' = parse_embedded_items(dataset)
    /\ pc' = "parse"
    /\ UNCHANGED <<dataset, fileExists, file, file0, entries, i, cur,
                   failed_lines, outcome, calls, rewritten, exitCode>>

\* Start of main: makedirs, parse_embedded_items and the sys.exit(1) on an
\* empty mapping.
LoadItems ==
    /\ pc = "load"
    /\ name_to_ident' = parse_embedded_items(dataset)
    /\ IF DOMAIN name_to_ident' = {}
       THEN pc' = "done" /\ exitCode' = 1
       ELSE pc' = "parse" /\ exitCode' = exitCode
    /\ UNCHANGED <<dataset, fileExists, file, file0, entries, i, cur,
                   failed_lines, outcome, calls, rewritten>>

\* ReadRequests without the return on no entries: the run goes on to the
\* rewrite.
ReadRequests_NoEarlyReturn ==
    /\ pc = "parse"
    /\ entries' = parse_requests_file(fileExists, file)
    /\ pc' = IF entries' = <<>> THEN "rewrite" ELSE "loop"
    /\ UNCHANGED <<dataset, name_to_ident, fileExists, file, file0, i, cur,
                   failed_lines, outcome, calls, rewritten, exitCode>>

\* entries = parse_requests_file(input_path) and the return on no entries.
ReadRequests ==
    /\ pc = "parse"
    /\ entries' = parse_requests_file(fileExists, file)
    /\ pc' = IF entries' = <<>> THEN "done" ELSE "loop"
    /\ UNCHANGED <<dataset, name_to_ident, fileExists, file, file0, i, cur,
                   failed_lines, outcome, calls, rewritten, exitCode>>

\* Resolution without the check that an identifier without prefix needs a
\* tier.
Resolution_NoTierCheck(name, tier, mapping) ==
    LET key == norm_name(name)
    IN  IF key \notin DOMAIN mapping
        THEN [status |-> "unknown item name", base_ident |-> <<>>,
              eff_tier |-> NoTier]
        ELSE LET base_ident == mapping[key]
             IN  [status |-> "resolved", base_ident |-> base_ident,
                  eff_tier |-> IF has_tier_prefix(base_ident)
                               THEN extract_tier_from_ident(base_ident)
                               ELSE tier]

\* The head of a loop iteration: the lookup of the normalized name and the
\* tier check that precede the try block.
Resolution(name, tier, mapping) ==
    LET key == norm_name(name)
        stop(reason) == [status |-> reason, base_ident |-> <<>>,
                         eff_tier |-> NoTier]
    IN  IF key \notin DOMAIN mapping THEN stop("unknown item name")
        ELSE LET base_ident == mapping[key]
             IN  IF has_tier_prefix(base_ident)
                 THEN [status |-> "resolved", base_ident |-> base_ident,
                       eff_tier |-> extract_tier_from_ident(base_ident)]
                 ELSE IF tier = NoTier THEN stop("tier required")
                 ELSE [status |-> "resolved", base_ident |-> base_ident,
                       eff_tier |-> tier]

AfterEntry(n) == IF n > Len(entries) THEN "rewrite" ELSE "loop"

Failure(status) ==
    [status |-> status, ident |-> <<>>, tier |-> NoTier, url |-> <<>>,
     out_file |-> <<>>]

\* One iteration up to the try block: a resolution failure appends the
\* original line and continues with the next request.
Resolve ==
    /\ pc = "loop"
    /\ LET e == entries[i]
           r == Resolution(e.name, e.tier, name_to_ident)
       IN  IF r.status = "resolved"
           THEN /\ cur' = [base_ident |-> r.base_ident,
                           eff_tier |-> r.eff_tier]
                /\ pc' = "fetch"
                /\ UNCHANGED <<failed_lines, outcome, i>>
           ELSE /\ failed_lines' = Append(failed_lines, e.original_line)
                /\ outcome' = Append(outcome, Failure(r.status))
                /\ i' = i + 1
                /\ pc' = AfterEntry(i + 1)
                /\ cur' = cur
    /\ UNCHANGED <<dataset, name_to_ident, fileExists, file, file0, entries,
                   calls, rewritten, exitCode>>

\* Fetch with a failed download ending the loop instead of being kept for
\* retry.
Fetch_FailureEndsLoop(fetched) ==
    /\ pc = "fetch"
    /\ LET e == entries[i]
           r == build_identifier(cur.base_ident, e.tier, e.enchant)
           url == build_url(r.ident, e.quality)
           out_file == build_filename(e.name, r.tier, e.enchant, e.quality)
       IN  /\ calls' = Append(calls, [entry |-> i, url |-> url,
                                      out_file |-> out_file, ok |-> fetched])
           /\ outcome' = Append(outcome,
                  [status |-> IF fetched THEN "ok" ELSE "fetch failed",
                   ident |-> r.ident, tier |-> r.tier, url |-> url,
                   out_file |-> out_file])
           /\ failed_lines' = IF fetched THEN failed_lines
                              ELSE Append(failed_lines, e.original_line)
           /\ pc' = IF fetched THEN AfterEntry(i + 1) ELSE "rewrite"
    /\ i' = i + 1
    /\ cur' = NoCur
    /\ UNCHANGED <<dataset, name_to_ident, fileExists, file, file0, entries,
                   rewritten, exitCode>>

\* Fetch with one more download attempt for a request whose first attempt
\* failed.
Fetch_RetriesOnce(fetched) ==
    /\ pc = "fetch"
    /\ LET e == entries[i]
           r == build_identifier(cur.base_ident, e.tier, e.enchant)
           url == build_url(r.ident, e.quality)
           out_file == build_filename(e.name, r.tier, e.enchant, e.quality)
           again == ~fetched /\ \A c \in 1..Len(calls) : calls[c].entry # i
       IN  /\ calls' = Append(calls, [entry |-> i, url |-> url,
                                      out_file |-> out_file, ok |-> fetched])
           /\ IF again
              THEN UNCHANGED <<outcome, failed_lines, i, pc, cur>>
              ELSE /\ outcome' = Append(outcome,
                          [status |-> IF fetched THEN "ok"
                                      ELSE "fetch failed",
                           ident |-> r.ident, tier |-> r.tier, url |-> url,
                           out_file |-> out_file])
                   /\ failed_lines' =
                          IF fetched THEN failed_lines
                          ELSE Append(failed_lines, e.original_line)
                   /\ i' = i + 1
                   /\ pc' = AfterEntry(i + 1)
                   /\ cur' = NoCur
    /\ UNCHANGED <<dataset, name_to_ident, fileExists, file, file0, entries,
                   rewritten, exitCode>>

\* Fetch with a failed download not recorded in the failure list.
Fetch_FailureNotKept(fetched) ==
    /\ pc = "fetch"
    /\ LET e == entries[i]
           r == build_identifier(cur.base_ident, e.tier, e.enchant)
           url == build_url(r.ident, e.quality)
           out_file == build_filename(e.name, r.tier, e.enchant, e.quality)
       IN  /\ calls' = Append(calls, [entry |-> i, url |-> url,
                                      out_file |-> out_file, ok |-> fetched])
           /\ outcome' = Append(outcome,
                  [status |-> IF fetched THEN "ok" ELSE "fetch failed",
                   ident |-> r.ident, tier |-> r.tier, url |-> url,
                   out_file |-> out_file])
           /\ failed_lines' = failed_lines
    /\ i' = i + 1
    /\ pc' = AfterEntry(i + 1)
    /\ cur' = NoCur
    /\ UNCHANGED <<dataset, name_to_ident, fileExists, file, file0, entries,
                   rewritten, exitCode>>

\* The try block: build the identifier, the url and the file name, then
\* download_one; fetched tells whether download_one returned or raised.
Fetch(fetched) ==
    /\ pc = "fetch"
    /\ LET e == entries[i]
           r == build_identifier(cur.base_ident, e.tier, e.enchant)
           url == build_url(r.ident, e.quality)
           out_file == build_filename(e.name, r.tier, e.enchant, e.quality)
       IN  IF r.raised
           THEN /\ failed_lines' = Append(failed_lines, e.original_line)
                /\ outcome' = Append(outcome, Failure("exception"))
                /\ calls' = calls
           ELSE /\ calls' = Append(calls, [entry |-> i, url |-> url,
                                           out_file |-> out_file,
                                           ok |-> fetched])
                /\ outcome' = Append(outcome,
                       [status |-> IF fetched THEN "ok" ELSE "fetch failed",
                        ident |-> r.ident, tier |-> r.tier, url |-> url,
                        out_file |-> out_file])
                /\ failed_lines' = IF fetched THEN failed_lines
                                   ELSE Append(failed_lines, e.original_line)
    /\ i' = i + 1
    /\ pc' = AfterEntry(i + 1)
    /\ cur' = NoCur
    /\ UNCHANGED <<dataset, name_to_ident, fileExists, file, file0, entries,
                   rewritten, exitCode>>

FetchOk == Fetch(TRUE)

FetchFails == Fetch(FALSE)

\* The rewrite of the input file: one line per failed line, right-stripped.
Rewrite ==
    /\ pc = "rewrite"
    /\ file' = [k \in 1..Len(failed_lines) |-> RStrip(failed_lines[k])]
    /\ fileExists' = TRUE
    /\ rewritten' = TRUE
    /\ pc' = "done"
    /\ UNCHANGED <<dataset, name_to_ident, file0, entries, i, cur,
                   failed_lines, outcome, calls, exitCode>>

\* open(input_path, "w") raises: the except clause prints a warning and the
\* file keeps its content.
RewriteRaises ==
    /\ pc = "rewrite"
    /\ pc' = "done"
    /\ UNCHANGED <<dataset, name_to_ident, fileExists, file, file0, entries, i,
                   cur, failed_lines, outcome, calls, rewritten, exitCode>>

Next ==
    \/ LoadItems
    \/ ReadRequests
    \/ Resolve
    \/ FetchOk
    \/ FetchFails
    \/ Rewrite
    \/ RewriteRaises

Spec == Init /\ [][Next]_vars

(* --------------------- shared notions of the claims -------------------- *)

\* The request file line a parsed request came from.
RawLine(k) == file0[entries[k].lineno]

\* The requests whose iteration has ended, and those that ended in failure.
Processed == 1..Len(outcome)

Failed(k) == outcome[k].status # "ok"

\* Position of request k in the failure list, if it failed.
FailPos(k) == Cardinality({j \in 1..k : Failed(j)})

Fetched(k) == \E c \in 1..Len(calls) : calls[c].entry = k

Known(k) == norm_name(entries[k].name) \in DOMAIN name_to_ident

BaseOf(k) == name_to_ident[norm_name(entries[k].name)]

\* A leading tier token T<1-8>_.
TierToken(ident) ==
    /\ Len(ident) >= 3
    /\ ident[1] = "T"
    /\ ident[2] \in {"1", "2", "3", "4", "5", "6", "7", "8"}
    /\ ident[3] = "_"

\* A blank line or a line starting with '#'.
IsCommentLine(line) == Strip(line) = <<>> \/ StartsWith(line, <<"#">>)

\* The text of the input lines of the failed requests, in input order.
RECURSIVE FailedRawLines(_)
FailedRawLines(n) ==
    IF n = 0 THEN <<>>
    ELSE IF Failed(n) THEN Append(FailedRawLines(n - 1), RawLine(n))
    ELSE FailedRawLines(n - 1)

\* A field that is present and non-empty but is not an integer of lo..hi.
BadField(cols, k, lo, hi) ==
    /\ Len(cols) >= k
    /\ cols[k] # <<>>
    /\ ~IsInt(cols[k]) \/ ToInt(cols[k]) \notin lo..hi

Malformed(line) ==
    LET cols == StripCols(CsvRow(line))
    IN  BadField(cols, 2, 1, 8) \/ BadField(cols, 3, 0, 4)
            \/ BadField(cols, 4, 1, 5)

(* ------------------------------- C1 ------------------------------------ *)

\* C1: when the run has rewritten the request file, the file holds exactly
\* the original text of the input lines whose request failed resolution or
\* fetch, one per line and in input order (no line at all when none failed).
\* Stated for request files without comment lines, which C8 is about.
C1_RewriteKeepsOriginalText ==
    (/\ pc = "done" /\ rewritten
     /\ \A n \in 1..Len(file0) : ~IsCommentLine(file0[n]))
        => file = FailedRawLines(Len(outcome))

(* ------------------------------- C2 ------------------------------------ *)

\* C2: a request line with a tier, enchantment or quality field that is not
\* an integer, or is outside 1-8, 0-4 or 1-5, never becomes a parsed request,
\* so it is never resolved or fetched and is never written back.  Stated for
\* lines that are not comments, which C8 is about.
C2_MalformedLineDropped ==
    \A k \in 1..Len(entries) :
        ~IsCommentLine(RawLine(k)) => ~Malformed(RawLine(k))

\* A field that is present, non-empty and an integer outside lo..hi.
OutOfRange(cols, k, lo, hi) ==
    /\ Len(cols) >= k
    /\ cols[k] # <<>>
    /\ IsInt(cols[k])
    /\ ToInt(cols[k]) \notin lo..hi

\* A line with an integer field outside its range, the tier -1 excepted.
OutOfRangeLine(line) ==
    LET cols == StripCols(CsvRow(line))
    IN  \/ OutOfRange(cols, 2, 1, 8) /\ ToInt(cols[2]) # 0 - 1
        \/ OutOfRange(cols, 3, 0, 4)
        \/ OutOfRange(cols, 4, 1, 5)

\* A line with a non-blank first field that is not a one-field '#' line.
CandidateLine(line) ==
    /\ line # <<>>
    /\ Strip(SplitComma(line)[1]) # <<>>
    /\ ~(Len(SplitComma(line)) = 1 /\ StartsWith(LStrip(line), <<"#">>))

\* C2 as amended: a line with an integer tier outside 1-8 other than -1, an
\* integer enchantment outside 0-4 or an integer quality outside 1-5 never
\* becomes a parsed request, and every line the run writes back is the line
\* of a failed request; every other candidate line becomes a request whose
\* tier is 1-8 or the sentinel, enchantment 0-4 and quality 1-5, a field that
\* is not an integer being replaced by its default.
C2_OutOfRangeLineDropped ==
    /\ \A k \in 1..Len(entries) :
           /\ ~OutOfRangeLine(RawLine(k))
           /\ entries[k].tier \in (1..8) \cup {NoTier}
           /\ entries[k].enchant \in 0..4
           /\ entries[k].quality \in 1..5
    /\ (pc \notin {"load", "parse"} /\ exitCode = 0 /\ fileExists) =>
           \A n \in 1..Len(file0) :
               (CandidateLine(file0[n]) /\ ~OutOfRangeLine(file0[n])) =>
                   \E k \in 1..Len(entries) : entries[k].lineno = n
    /\ (pc = "done" /\ rewritten) =>
           \A j \in 1..Len(file) :
               \E k \in Processed :
                   /\ Failed(k) /\ FailPos(k) = j
                   /\ file[j] = RStrip(entries[k].original_line)

\* C2 happens: the first line of a two-line file had an out-of-range field
\* and was dropped, the second became the only request and failed, and the
\* rewritten file holds that one line.
C2_Witness ==
    /\ pc = "done" /\ rewritten
    /\ Len(file0) = 2
    /\ OutOfRangeLine(file0[1])
    /\ Len(entries) = 1 /\ entries[1].lineno = 2
    /\ Len(file) = 1

(* ------------------------------- C3 ------------------------------------ *)

\* C3: for a processed request whose base identifier starts with T<1-8>_,
\* whatever tier was supplied, the resolved tier is the embedded one, the
\* identifier core is the base identifier unchanged, a fetch was attempted,
\* and the request is in the failure list only when that fetch failed.
C3_EmbeddedTierWins ==
    \A k \in Processed :
        (Known(k) /\ TierToken(BaseOf(k))) =>
            LET base == BaseOf(k)
                o    == outcome[k]
            IN  /\ o.status \in {"ok", "fetch failed"}
                /\ o.tier = DigitVal(base[2])
                /\ StartsWith(o.ident, base)
                /\ Len(o.ident) > Len(base) => o.ident[Len(base) + 1] = "@"
                /\ \E c \in 1..Len(calls) :
                       /\ calls[c].entry = k
                       /\ calls[c].ok = (o.status = "ok")
                /\ Len(failed_lines) = FailPos(Len(outcome))
                /\ Failed(k) =>
                       failed_lines[FailPos(k)] = entries[k].original_line

\* C3 happens: a request with an embedded tier 2 and a supplied tier 5 was
\* fetched successfully and the failure list is empty.
C3_Witness ==
    \E k \in Processed :
        /\ Known(k) /\ TierToken(BaseOf(k))
        /\ entries[k].tier = 5
        /\ outcome[k].status = "ok" /\ outcome[k].tier = 2
        /\ failed_lines = <<>>

(* ------------------------------- C4 ------------------------------------ *)

C5_UnknownNameKeptExactly ==
    \A k \in Processed :
        (~Known(k) /\ ~IsCommentLine(RawLine(k))) =>
            /\ outcome[k].status = "unknown item name"
            /\ ~Fetched(k)
            /\ (pc = "done" /\ rewritten) =>
                   /\ FailPos(k) <= Len(file)
                   /\ file[FailPos(k)] = RawLine(k)

(* ------------------------------- C6 ------------------------------------ *)

\* C6: a request whose fetch failed has its original line in the failure
\* list at its input-order position, and in the rewritten file like any
\* resolution failure; once the loop is over every parsed request has been
\* processed whatever fetches failed, and the exit status is 0.
C6_FetchFailureIsRequestLevel ==
    /\ \A k \in Processed :
           outcome[k].status = "fetch failed" =>
               /\ FailPos(k) <= Len(failed_lines)
               /\ failed_lines[FailPos(k)] = entries[k].original_line
               /\ (pc = "done" /\ rewritten) =>
                      /\ FailPos(k) <= Len(file)
                      /\ file[FailPos(k)] = RStrip(entries[k].original_line)
    /\ (pc \in {"rewrite", "done"} /\ outcome # <<>>) =>
           /\ Len(outcome) = Len(entries)
           /\ exitCode = 0

\* C6 happens: the first fetch failed, the second request was still fetched,
\* and the run ended normally with the first line kept in the file.
C6_Witness ==
    /\ pc = "done" /\ rewritten /\ exitCode = 0
    /\ Len(outcome) = 2
    /\ outcome[1].status = "fetch failed"
    /\ outcome[2].status = "ok"
    /\ Len(file) = 1

(* ------------------------------- C7 ------------------------------------ *)

\* A dataset line that contributes an entry to the mapping.
SignificantLine(line) ==
    LET t == Strip(line)
    IN  /\ t # <<>>
        /\ Head(t) # "#"
        /\ LET row == SplitComma(t)
           IN  Len(row) >= 2 /\ Strip(row[1]) # <<>> /\ Strip(row[2]) # <<>>

DatasetEmpty == \A k \in 1..Len(dataset) : ~SignificantLine(dataset[k])

C9_IdentifierShape ==
    \A k \in Processed :
        outcome[k].status \in {"ok", "fetch failed"} =>
            LET e    == entries[k]
                base == BaseOf(k)
                core == IF TierToken(base) THEN base
                        ELSE <<"T", Digits[e.tier + 1], "_">> \o base
                tail == IF e.enchant = 0 THEN <<>>
                        ELSE <<"@", Digits[e.enchant + 1]>>
            IN  /\ Known(k)
                /\ TierToken(base) \/ e.tier \in 1..8
                /\ e.enchant \in 0..4
                /\ outcome[k].ident = core \o tail

\* C9 happens: "Cleric Robe" with tier 6 and enchantment 1 was resolved to
\* T6_ARMOR_CLOTH_SET2@1, and a request with an embedded tier and
\* enchantment 0 to its base identifier.
C9_Witness ==
    /\ \E k \in Processed :
           outcome[k].ident =
               <<"T", "6", "_", "A", "R", "M", "O", "R", "_", "C", "L", "O",
                 "T", "H", "_", "S", "E", "T", "2", "@", "1">>
    /\ \E k \in Processed :
           /\ outcome[k].status = "ok"
           /\ entries[k].enchant = 0
           /\ outcome[k].ident = BaseOf(k)

(* ------------------------------- C10 ----------------------------------- *)

\* C10: for every fetch, quality 1 leaves the url ending in .png without a
\* query and the file name ending in a digit and .png, with no quality word;
\* a quality of 2..5 ends the url with ?quality=<value> and the file name
\* with a space, that quality's word and .png.
C10_QualityInOutputs ==
    \A c \in 1..Len(calls) :
        LET q   == entries[calls[c].entry].quality
            url == calls[c].url
            fn  == calls[c].out_file
        IN  /\ q \in 1..5
            /\ q = 1 =>
                   /\ EndsWith(url, PngExt)
                   /\ \A j \in 1..Len(url) : url[j] # "?"
                   /\ EndsWith(fn, PngExt)
                   /\ IsDigit(fn[Len(fn) - Len(PngExt)])
                   /\ \A w \in 1..5 :
                          ~EndsWith(fn, <<" ">> \o QUALITY_WORD[w] \o PngExt)
            /\ q > 1 =>
                   /\ EndsWith(url, PngExt \o QualityParam \o <<Digits[q + 1]>>)
                   /\ EndsWith(fn, <<" ">> \o QUALITY_WORD[q] \o PngExt)

\* C10 happens: one run fetched a request of quality 1 and then a request of
\* quality 4 whose file name ends in " Excellent.png".
C10_Witness ==
    /\ Len(calls) = 2
    /\ entries[calls[1].entry].quality = 1
    /\ entries[calls[2].entry].quality = 4
    /\ EndsWith(calls[2].out_file,
                <<" ", "E", "x", "c", "e", "l", "l", "e", "n", "t", ".", "p",
                  "n", "g">>)

(* ------------------------------- C8 ------------------------------------ *)

\* C8: no blank line and no line starting with '#', with or without commas,
\* ever becomes a parsed request, and no such line is in the request file
\* once it is rewritten.
C8_CommentLinesDropped ==
    /\ \A k \in 1..Len(entries) : ~IsCommentLine(RawLine(k))
    /\ (pc = "done" /\ rewritten) =>
           \A j \in 1..Len(file) : ~IsCommentLine(file[j])

(* ------------------------------- C11 ----------------------------------- *)

\* C11: the parsed requests are in input-line order; the download_one calls
\* are for requests of the list, in strictly increasing request order (so a
\* subsequence with at most one call per request), each with the url of that
\* request's outcome; a request that failed resolution has no call; and
\* while request i is being resolved or fetched every earlier request has
\* its outcome recorded and every call made is for an earlier request.
C11_SequentialInOrder ==
    /\ \A k \in 1..(Len(entries) - 1) :
           entries[k].lineno < entries[k + 1].lineno
    /\ \A c \in 1..Len(calls) :
           /\ calls[c].entry \in 1..Len(entries)
           /\ calls[c].entry \in Processed
           /\ outcome[calls[c].entry].status =
                  (IF calls[c].ok THEN "ok" ELSE "fetch failed")
           /\ calls[c].url = outcome[calls[c].entry].url
    /\ \A c \in 1..Len(calls) : \A d \in 1..Len(calls) :
           c < d => calls[c].entry < calls[d].entry
    /\ \A k \in Processed :
           outcome[k].status \in {"unknown item name", "tier required"} =>
               ~Fetched(k)
    /\ pc \in {"loop", "fetch"} =>
           /\ i \in 1..Len(entries)
           /\ Len(outcome) = i - 1
           /\ \A c \in 1..Len(calls) : calls[c].entry < i

\* C11 happens: the first of two requests failed resolution and got no
\* call, the second was then fetched, and the run is over.
C11_Witness ==
    /\ pc = "done"
    /\ Len(entries) = 2 /\ Len(outcome) = 2
    /\ outcome[1].status = "unknown item name"
    /\ Len(calls) = 1 /\ calls[1].entry = 2

(* ------------------------------- C12 ----------------------------------- *)

\* The download_one calls that returned.
Successes == {c \in 1..Len(calls) : calls[c].ok}

\* The original lines of the requests 1..n that were not fetched
\* successfully, in request order.
RECURSIVE LinesNotFetched(_)
LinesNotFetched(n) ==
    IF n = 0 THEN <<>>
    ELSE IF \E c \in Successes : calls[c].entry = n
         THEN LinesNotFetched(n - 1)
         ELSE Append(LinesNotFetched(n - 1), entries[n].original_line)

\* C12: at every point of the loop each request handled so far has exactly
\* one outcome, the successful fetches and the failure list together count
\* the requests handled, and the failure list holds, in order, one entry for
\* each request that was not fetched successfully and none for the others;
\* once the loop is over this covers every parsed request.
C12_OneOutcomePerRequest ==
    /\ Len(outcome) <= Len(entries)
    /\ Cardinality(Successes) + Len(failed_lines) = Len(outcome)
    /\ \A k \in Processed :
           (outcome[k].status = "ok") <=>
               (\E c \in Successes : calls[c].entry = k)
    /\ failed_lines = LinesNotFetched(Len(outcome))
    /\ (pc \in {"rewrite", "done"} /\ entries # <<>>) =>
           /\ Len(outcome) = Len(entries)
           /\ Cardinality(Successes) + Len(failed_lines) = Len(entries)

\* C12 happens: the loop is over for two requests, one fetched successfully
\* and the other in the failure list.
C12_Witness ==
    /\ pc = "rewrite"
    /\ Len(entries) = 2
    /\ Cardinality(Successes) = 1
    /\ Len(failed_lines) = 1

(* ------------------------------- C13 ----------------------------------- *)

\* The request file yields no valid request: it is missing, or each of its
\* lines is blank, a comment, without a name, or rejected by a range check.
NoValidRequest ==
    \/ ~fileExists
    \/ \A n \in 1..Len(file0) :
           ~CandidateLine(file0[n]) \/ OutOfRangeLine(file0[n])

\* C13: when the request file yields no valid request, the run never enters
\* the loop or the rewrite: no request is parsed, no fetch is attempted, the
\* failure list stays empty and the file keeps the content it had; with a
\* non-empty mapping the run ends with status 0.
C13_NoEntriesLeavesFile ==
    NoValidRequest =>
        /\ pc \in {"load", "parse", "done"}
        /\ entries = <<>> /\ outcome = <<>> /\ calls = <<>>
        /\ failed_lines = <<>>
        /\ file = file0
        /\ ~rewritten
        /\ (pc = "done" /\ ~DatasetEmpty) => exitCode = 0

\* C13 happens: with a non-empty mapping, a run over an existing file of
\* two lines, none of them a valid request, is over and the file is as it was.
C13_Witness ==
    /\ pc = "done" /\ ~DatasetEmpty /\ exitCode = 0
    /\ fileExists /\ Len(file0) = 2
    /\ OutOfRangeLine(file0[2])
    /\ NoValidRequest
    /\ file = file0

====
